---- MODULE Spec2Model ----
(***************************************************************************)
(* TimedCache (src/utils/containers.py): a dictionary whose keys are       *)
(* deleted by an asyncio task a certain amount of time after insertion.    *)
(*                                                                         *)
(* The cache lives on one asyncio event loop.  __setitem__, __delitem__,   *)
(* get, set, __getitem__, __len__ and __iter__ contain no await, so each   *)
(* of them runs to completion as one step of the loop.  The only           *)
(* suspension point is the `await async_sleep(...)` inside _timed_del: a   *)
(* task sleeps until its deadline, the loop then marks its sleep finished  *)
(* and queues the task (Wake), and a later loop iteration resumes it,      *)
(* which either executes storage.pop(key) (TimedDel) or, when              *)
(* Task.cancel() was requested in the meantime, throws CancelledError into *)
(* the coroutine (TimedDelCancelled).                                      *)
(*                                                                         *)
(* Spec is the cache under every handler and its timers; SpecIter adds an  *)
(* iterator that is consumed while the cache changes, and SpecGet stores   *)
(* values of every truthiness.                                             *)
(***************************************************************************)
EXTENDS Integers, Sequences, FiniteSets, TLC

VARIABLES
    pc,        \* "new" before __init__, "live" after it returned, "failed" if it raised
    timeout,   \* self.timeout (seconds); meaningful once pc = "live"
    storage,   \* self.storage: key -> (value, task)
    tasks,     \* every task made by loop.create_task, in creation order
    now,       \* the loop's clock, in seconds
    hist,      \* per key: the value of the last set not followed by a delete
    last,      \* the step executed last and what it returned or raised
    it         \* the iterator returned by the latest iter(cache)

vars == <<pc, timeout, storage, tasks, now, hist, last, it>>

(***************************************************************************)
(* Bounds of the model.                                                    *)
(***************************************************************************)
NumKeys == 2
MaxTasks == 2
MaxTime == 2

Keys == 1..NumKeys
TaskIds == 1..Len(tasks)

(***************************************************************************)
(* Python values.  Every value is a record [ty, v] where v is a sequence   *)
(* of integers: the number itself for an int, the character codes for a    *)
(* str, 1 or 0 for a bool, empty for None.                                 *)
(***************************************************************************)
PyNone == [ty |-> "NoneType", v |-> <<>>]
PyInt(n) == [ty |-> "int", v |-> <<n>>]
PyStr(s) == [ty |-> "str", v |-> s]
PyBool(b) == [ty |-> "bool", v |-> <<IF b THEN 1 ELSE 0>>]
NoValue == [ty |-> "-", v |-> <<>>]

\* bool(x)
Truthy(x) ==
    CASE x.ty = "NoneType" -> FALSE
      [] x.ty \in {"int", "bool"} -> x.v[1] # 0
      [] OTHER -> Len(x.v) > 0

Ok(x) == [kind |-> "ok", val |-> x]
Raise(e) == [kind |-> e, val |-> NoValue]

\* x[0]
Subscript0(x) ==
    CASE x.ty = "str" /\ Len(x.v) > 0 -> Ok(PyStr(<<x.v[1]>>))
      [] x.ty = "str" -> Raise("IndexError")
      [] OTHER -> Raise("TypeError")

\* values stored by the callers of the model, and defaults handed to get
Values == {PyInt(0), PyInt(1)}
Defaults == {PyNone, PyInt(5), PyStr(<<97, 98>>)}

(***************************************************************************)
(* Delays: Union[timedelta, datetime, int, None].                          *)
(*   "td"    timedelta of n seconds                                        *)
(*   "aware" offset-aware datetime, n seconds on the loop's clock          *)
(*   "naive" offset-naive datetime, n seconds on the loop's clock          *)
(*   "num"   the number n                                                  *)
(*   "none"  None                                                          *)
(***************************************************************************)
Delay(tag, n) == [tag |-> tag, n |-> n]
NoDelay == Delay("none", 0)

\* mutant: a delay that comes out negative is rejected
ConvertDelay_RejectsNegative(delay, self_timeout, has_timeout, clock) ==
    LET n == CASE delay.tag = "td" -> delay.n
               [] delay.tag = "aware" -> clock - delay.n
               [] delay.tag = "num" /\ delay.n # 0 -> delay.n
               [] OTHER -> self_timeout
    IN  CASE delay.tag = "naive" -> [kind |-> "TypeError", n |-> 0]
          [] delay.tag \in {"num", "none"} /\ delay.n = 0 /\ ~has_timeout ->
                [kind |-> "AttributeError", n |-> 0]
          [] n < 0 -> [kind |-> "ConfigurationError", n |-> 0]
          [] OTHER -> [kind |-> "ok", n |-> n]

\* _convert_delay(delay), evaluated at clock reading `clock` on an object whose
\* attribute self.timeout is `self_timeout` when `has_timeout`, and unset otherwise
ConvertDelay(delay, self_timeout, has_timeout, clock) ==
    CASE delay.tag = "td" -> [kind |-> "ok", n |-> delay.n]
      [] delay.tag = "aware" -> [kind |-> "ok", n |-> clock - delay.n]
         \* aware now minus naive delay raises TypeError; `except ValueError`
         \* does not catch it
      [] delay.tag = "naive" -> [kind |-> "TypeError", n |-> 0]
         \* return delay or self.timeout
      [] OTHER ->
            IF delay.tag = "num" /\ delay.n # 0
                THEN [kind |-> "ok", n |-> delay.n]
                ELSE IF has_timeout
                        THEN [kind |-> "ok", n |-> self_timeout]
                        ELSE [kind |-> "AttributeError", n |-> 0]

(***************************************************************************)
(* Tasks.  state is                                                        *)
(*   "sleeping"   suspended in `await async_sleep(...)` until deadline     *)
(*   "ready"      the sleep has finished, the task is queued to resume     *)
(*   "cancelling" Task.cancel() was requested, CancelledError is queued    *)
(*   "done"       storage.pop(key) has run                                 *)
(*   "failed"     storage.pop(key) raised KeyError                         *)
(*   "cancelled"  the coroutine ended with CancelledError                  *)
(* woken tells whether the sleep had finished (the loop had queued the     *)
(* task) and cancelledBy which handler requested the cancellation.         *)
(***************************************************************************)
Pending(t) == tasks[t].state \in {"sleeping", "ready"}

\* mutant: a key that still has an entry keeps the expiry of that entry
TimedDelTask_KeepsOldExpiry(key, n, self_timeout, clock) ==
    [key |-> key,
     deadline |-> IF key \in DOMAIN storage
                      THEN tasks[storage[key].task].deadline
                      ELSE clock + (IF n # 0 THEN n ELSE self_timeout),
     state |-> "sleeping", woken |-> FALSE, cancelledBy |-> "-"]

\* _timed_del(key, timeout) handed to loop.create_task: sleeps for
\* `timeout or self.timeout`
TimedDelTask(key, n, self_timeout, clock) ==
    [key |-> key,
     deadline |-> clock + (IF n # 0 THEN n ELSE self_timeout),
     state |-> "sleeping", woken |-> FALSE, cancelledBy |-> "-"]

\* mutant: a task whose sleep has already finished is not cancelled any more
Cancel_TooLate(ts, t, by) ==
    IF ts[t].state = "sleeping"
        THEN [ts EXCEPT ![t].state = "cancelling", ![t].cancelledBy = by]
        ELSE ts

\* mutant: the request is noted on the task but never delivered to it
Cancel_Lost(ts, t, by) == [ts EXCEPT ![t].cancelledBy = by]

\* Task.cancel(): a finished task is left alone; otherwise the task will be
\* resumed with CancelledError, whether its sleep is still running or has
\* already finished
Cancel(ts, t, by) ==
    IF ts[t].state \in {"sleeping", "ready"}
        THEN [ts EXCEPT ![t].state = "cancelling", ![t].cancelledBy = by]
        ELSE ts

\* what a step was called with and what it returned or raised; arg is the default
\* handed to get, delay the timeout handed to __init__ or set
Last(op, key, task, res, arg, delay) ==
    [op |-> op, key |-> key, task |-> task, kind |-> res.kind, val |-> res.val,
     arg |-> arg, delay |-> delay]

\* no iterator has been asked for yet
NoIter == [state |-> "none", copy |-> <<>>, pos |-> 0, present |-> <<>>, yielded |-> <<>>]

Init ==
    /\ it = NoIter
    /\ pc = "new"
    /\ timeout = 0
    /\ storage = <<>>
    /\ tasks = <<>>
    /\ now = 0
    /\ hist = [k \in Keys |-> NoValue]
    /\ last = Last("-", 0, 0, Ok(NoValue), NoValue, NoDelay)

(***************************************************************************)
(* __init__(timeout, loop): self.timeout = self._convert_delay(timeout).   *)
(* self.timeout is not set yet while _convert_delay runs.                  *)
(***************************************************************************)
InitDelays ==
    {Delay("num", 2), Delay("num", 0), Delay("num", -1), NoDelay,
     Delay("td", 0), Delay("td", -1),
     Delay("aware", -2), Delay("aware", 1), Delay("naive", 0)}

Construct(delay) ==
    /\ pc = "new"
    /\ LET r == ConvertDelay(delay, 0, FALSE, now) IN
        /\ pc' = IF r.kind = "ok" THEN "live" ELSE "failed"
        /\ timeout' = IF r.kind = "ok" THEN r.n ELSE timeout
        /\ last' = Last("__init__", 0, 0, [kind |-> r.kind, val |-> NoValue],
                        NoValue, delay)
    /\ UNCHANGED <<storage, tasks, now, hist, it>>

(***************************************************************************)
(* __setitem__(key, value, timeout)                                        *)
(***************************************************************************)
Without(st, key) == [k \in DOMAIN st \ {key} |-> st[k]]

\* mutant: the old entry is popped but its task is not cancelled
SetItemCancelled_Forgotten(key) == tasks

\* lines 64-65: old_val := self.storage.pop(key, None); old_val[1].cancel().
\* old_val is a 2-tuple, hence truthy whenever the key was present.
SetItemCancelled(key) ==
    IF key \in DOMAIN storage THEN Cancel(tasks, storage[key].task, "set") ELSE tasks

\* mutant: the per-call timeout is dropped, the map's default is always taken
SetItemDelay_IgnoresPerCall(delay) == [kind |-> "ok", n |-> timeout]

\* the outcome of line 67's self._convert_delay(timeout)
SetItemDelay(delay) == ConvertDelay(delay, timeout, TRUE, now)

\* mutant: the handler gives way to the loop after popping the old entry, before
\* the new one is installed
SetItem_YieldsAfterPop(key, value, delay) ==
    LET ts == SetItemCancelled(key)
        st == Without(storage, key)
        r == SetItemDelay(delay)
        new == Len(ts) + 1
    IN  IF r.kind = "ok" /\ key \notin DOMAIN storage
            THEN /\ tasks' = Append(ts, TimedDelTask(key, r.n, timeout, now))
                 /\ storage' = (key :> [value |-> value, task |-> new]) @@ st
                 /\ hist' = [hist EXCEPT ![key] = value]
            ELSE /\ tasks' = ts
                 /\ storage' = st
                 /\ hist' = [hist EXCEPT ![key] = NoValue]

SetItem(key, value, delay) ==
    LET ts == SetItemCancelled(key)
        st == Without(storage, key)
        r == SetItemDelay(delay)
        new == Len(ts) + 1
    IN  IF r.kind = "ok"
            THEN /\ tasks' = Append(ts, TimedDelTask(key, r.n, timeout, now))
                 /\ storage' = (key :> [value |-> value, task |-> new]) @@ st
                 /\ hist' = [hist EXCEPT ![key] = value]
            ELSE \* line 67 raised after the old entry was popped and cancelled
                 /\ tasks' = ts
                 /\ storage' = st
                 /\ hist' = [hist EXCEPT ![key] = NoValue]

\* cache[key] = value
SubscriptAssign(key, value) ==
    /\ pc = "live"
    /\ Len(tasks) < MaxTasks
    /\ SetItem(key, value, NoDelay)
    /\ last' = Last("__setitem__", key, Len(tasks) + 1,
                    [kind |-> SetItemDelay(NoDelay).kind, val |-> NoValue],
                    value, NoDelay)
    /\ UNCHANGED <<pc, timeout, now, it>>

(***************************************************************************)
(* set(key, value, timeout): converts the timeout, hands the seconds to    *)
(* __setitem__ (which converts them again) and returns the value.          *)
(***************************************************************************)
SetDelays ==
    {NoDelay, Delay("num", 0), Delay("num", 1), Delay("td", -1), Delay("naive", 0)}

Set(key, value, delay) ==
    /\ pc = "live"
    /\ Len(tasks) < MaxTasks
    /\ LET r == ConvertDelay(delay, timeout, TRUE, now) IN
        IF r.kind = "ok"
            THEN /\ SetItem(key, value, Delay("num", r.n))
                 /\ last' = Last("set", key, Len(tasks) + 1,
                                 IF SetItemDelay(Delay("num", r.n)).kind = "ok"
                                     THEN Ok(value)
                                     ELSE Raise(SetItemDelay(Delay("num", r.n)).kind),
                                 value, delay)
            ELSE /\ last' = Last("set", key, 0, Raise(r.kind), value, delay)
                 /\ UNCHANGED <<storage, tasks, hist>>
    /\ UNCHANGED <<pc, timeout, now, it>>

(***************************************************************************)
(* __delitem__(key)                                                        *)
(***************************************************************************)
\* mutant: the entry is deleted first, so the lookup of its task raises KeyError
\* and the task is never cancelled
DelItem_DeletesFirst(key) ==
    /\ pc = "live"
    /\ IF key \in DOMAIN storage
          THEN /\ storage' = Without(storage, key)
               /\ hist' = [hist EXCEPT ![key] = NoValue]
               /\ last' = Last("__delitem__", key, storage[key].task, Raise("KeyError"),
                               NoValue, NoDelay)
               /\ UNCHANGED tasks
          ELSE /\ last' = Last("__delitem__", key, 0, Raise("KeyError"),
                               NoValue, NoDelay)
               /\ UNCHANGED <<storage, tasks, hist>>
    /\ UNCHANGED <<pc, timeout, now, it>>

DelItem(key) ==
    /\ pc = "live"
    /\ IF key \in DOMAIN storage
          THEN /\ tasks' = Cancel(tasks, storage[key].task, "del")
               /\ storage' = Without(storage, key)
               /\ hist' = [hist EXCEPT ![key] = NoValue]
               /\ last' = Last("__delitem__", key, storage[key].task, Ok(NoValue),
                               NoValue, NoDelay)
          ELSE \* self.storage[key] raises KeyError
               /\ last' = Last("__delitem__", key, 0, Raise("KeyError"),
                               NoValue, NoDelay)
               /\ UNCHANGED <<storage, tasks, hist>>
    /\ UNCHANGED <<pc, timeout, now, it>>

(***************************************************************************)
(* get(key, default) and __getitem__(key)                                  *)
(***************************************************************************)
\* mutant: the hit is recognised by the truthiness of the stored value
GetResult_ByValueTruthiness(key, default) ==
    IF key \in DOMAIN storage /\ Truthy(storage[key].value)
        THEN Ok(storage[key].value)
        ELSE IF Truthy(default) THEN Subscript0(default) ELSE Ok(default)

\* value = self.storage.get(key, default); return value[0] if value else default.
\* For a present key, value is the entry's 2-tuple, which is truthy.
GetResult(key, default) ==
    IF key \in DOMAIN storage
        THEN Ok(storage[key].value)
        ELSE IF Truthy(default) THEN Subscript0(default) ELSE Ok(default)

\* mutant: a hit restarts the entry's timer from the map's default timeout
Get_RefreshesTimer(key, default) ==
    /\ pc = "live"
    /\ last' = Last("get", key, 0, GetResult(key, default), default, NoDelay)
    /\ tasks' = IF key \in DOMAIN storage
                    THEN [tasks EXCEPT ![storage[key].task].deadline = now + timeout]
                    ELSE tasks
    /\ UNCHANGED <<pc, timeout, storage, now, hist, it>>

Get(key, default) ==
    /\ pc = "live"
    /\ last' = Last("get", key, 0, GetResult(key, default), default, NoDelay)
    /\ UNCHANGED <<pc, timeout, storage, tasks, now, hist, it>>

\* mutant: a missing key reads as None
GetItemResult_Lenient(key) ==
    IF key \in DOMAIN storage THEN Ok(storage[key].value) ELSE Ok(PyNone)

\* return self.storage[key][0]
GetItemResult(key) ==
    IF key \in DOMAIN storage THEN Ok(storage[key].value) ELSE Raise("KeyError")

\* key in cache: Mapping.__contains__ tries self[key] and catches KeyError
Contains(key) == GetItemResult(key).kind # "KeyError"

GetItem(key) ==
    /\ pc = "live"
    /\ last' = Last("__getitem__", key, 0, GetItemResult(key), NoValue, NoDelay)
    /\ UNCHANGED <<pc, timeout, storage, tasks, now, hist, it>>

(***************************************************************************)
(* len(cache)                                                              *)
(***************************************************************************)
\* mutant: the timers ever armed are counted instead of the entries
LenResult_CountsTimers == Ok(PyInt(Len(tasks)))

\* return len(self.storage)
LenResult == Ok(PyInt(Cardinality(DOMAIN storage)))

LenCall ==
    /\ pc = "live"
    /\ last' = Last("__len__", 0, 0, LenResult, NoValue, NoDelay)
    /\ UNCHANGED <<pc, timeout, storage, tasks, now, hist, it>>

(***************************************************************************)
(* The event loop: the clock, and the tasks running _timed_del.            *)
(***************************************************************************)
Tick ==
    /\ pc = "live"
    /\ now < MaxTime
    /\ now' = now + 1
    /\ last' = Last("tick", 0, 0, Ok(NoValue), NoValue, NoDelay)
    /\ UNCHANGED <<pc, timeout, storage, tasks, hist, it>>

\* mutant: the sleep finishes without waiting for the delay
Wake_Early(t) ==
    /\ tasks[t].state = "sleeping"
    /\ tasks' = [tasks EXCEPT ![t].state = "ready", ![t].woken = TRUE]
    /\ last' = Last("wake", tasks[t].key, t, Ok(NoValue), NoValue, NoDelay)
    /\ UNCHANGED <<pc, timeout, storage, now, hist, it>>

\* async_sleep(delay, result=key) finishes once the delay has elapsed
Wake(t) ==
    /\ tasks[t].state = "sleeping"
    /\ now >= tasks[t].deadline
    /\ tasks' = [tasks EXCEPT ![t].state = "ready", ![t].woken = TRUE]
    /\ last' = Last("wake", tasks[t].key, t, Ok(NoValue), NoValue, NoDelay)
    /\ UNCHANGED <<pc, timeout, storage, now, hist, it>>

\* mutant: the resumed task empties the map
TimedDel_ClearsAll(t) ==
    /\ tasks[t].state = "ready"
    /\ storage' = <<>>
    /\ tasks' = [tasks EXCEPT ![t].state = "done"]
    /\ last' = Last("_timed_del", tasks[t].key, t, Ok(NoValue), NoValue, NoDelay)
    /\ UNCHANGED <<pc, timeout, now, hist, it>>

\* the task resumes after the await: self.storage.pop(key)
TimedDel(t) ==
    /\ tasks[t].state = "ready"
    /\ LET key == tasks[t].key IN
        IF key \in DOMAIN storage
            THEN /\ storage' = Without(storage, key)
                 /\ tasks' = [tasks EXCEPT ![t].state = "done"]
                 /\ last' = Last("_timed_del", key, t, Ok(NoValue), NoValue, NoDelay)
            ELSE /\ storage' = storage
                 /\ tasks' = [tasks EXCEPT ![t].state = "failed"]
                 /\ last' = Last("_timed_del", key, t, Raise("KeyError"),
                                 NoValue, NoDelay)
    /\ UNCHANGED <<pc, timeout, now, hist, it>>

\* mutant: the cancellation is swallowed and the pop runs all the same
TimedDelCancelled_Pops(t) ==
    /\ tasks[t].state = "cancelling"
    /\ tasks' = [tasks EXCEPT ![t].state = "cancelled"]
    /\ storage' = Without(storage, tasks[t].key)
    /\ last' = Last("cancelled", tasks[t].key, t, Raise("CancelledError"),
                    NoValue, NoDelay)
    /\ UNCHANGED <<pc, timeout, now, hist, it>>

\* the task resumes with CancelledError thrown at the await: pop never runs
TimedDelCancelled(t) ==
    /\ tasks[t].state = "cancelling"
    /\ tasks' = [tasks EXCEPT ![t].state = "cancelled"]
    /\ last' = Last("cancelled", tasks[t].key, t, Raise("CancelledError"),
                    NoValue, NoDelay)
    /\ UNCHANGED <<pc, timeout, storage, now, hist, it>>

Next ==
    \/ \E d \in InitDelays : Construct(d)
    \/ \E k \in Keys, v \in Values : SubscriptAssign(k, v)
    \/ \E k \in Keys, v \in Values, d \in SetDelays : Set(k, v, d)
    \/ \E k \in Keys : DelItem(k)
    \/ \E k \in Keys, d \in Defaults : Get(k, d)
    \/ \E k \in Keys : GetItem(k)
    \/ LenCall
    \/ Tick
    \/ \E t \in TaskIds : Wake(t)
    \/ \E t \in TaskIds : TimedDel(t)
    \/ \E t \in TaskIds : TimedDelCancelled(t)

Spec == Init /\ [][Next]_vars

(***************************************************************************)
(* iter(cache): __iter__ builds the dict {k: v[0] for k, v in              *)
(* self.storage.items()} and returns an iterator over it.  The dict is     *)
(* private to the iterator; every next() on the iterator is a step of its  *)
(* own, and the handlers and timers of the cache run between two of them.  *)
(*   it.copy     the private dict, as its (key, value) items in order      *)
(*   it.pos      how many items the iterator has gone past                 *)
(*   it.present  the values under the keys of the map when iter was called *)
(*   it.yielded  what next() has returned so far                           *)
(***************************************************************************)
\* a dict keeps insertion order; an overwrite pops the key and inserts it again,
\* so the entries of storage are ordered as their tasks are
KeyAt(i) ==
    CHOOSE k \in DOMAIN storage :
        Cardinality({j \in DOMAIN storage : storage[j].task < storage[k].task}) = i - 1

\* {k: v[0] for k, v in self.storage.items()}
DictCopy ==
    [i \in 1..Cardinality(DOMAIN storage) |->
        [key |-> KeyAt(i), value |-> storage[KeyAt(i)].value]]

\* what next() hands out: a bare key, or a (key, value) tuple
KeyItem(k) == [ty |-> "key", key |-> k, val |-> NoValue]
PairItem(k, v) == [ty |-> "tuple", key |-> k, val |-> v]

\* mutant: the items of the dict are yielded, as dict.items() would
IterItem_Pairs(e) == PairItem(e.key, e.value)

\* iterating a dict yields its keys
IterItem(e) == KeyItem(e.key)

\* mutant: the iterator walks the live storage instead of a copy
IterSource_Live == DictCopy

\* the dict the iterator walks
IterSource == it.copy

Iter ==
    /\ pc = "live"
    /\ it' = [state |-> "open", copy |-> DictCopy, pos |-> 0,
              present |-> [k \in DOMAIN storage |-> storage[k].value],
              yielded |-> <<>>]
    /\ last' = Last("__iter__", 0, 0, Ok(NoValue), NoValue, NoDelay)
    /\ UNCHANGED <<pc, timeout, storage, tasks, now, hist>>

\* next(iterator)
IterNext ==
    /\ it.state = "open"
    /\ IF it.pos < Len(IterSource)
          THEN /\ it' = [it EXCEPT !.pos = it.pos + 1,
                                   !.yielded = Append(it.yielded,
                                                      IterItem(IterSource[it.pos + 1]))]
               /\ last' = Last("next", IterSource[it.pos + 1].key, 0, Ok(NoValue),
                               NoValue, NoDelay)
          ELSE /\ it' = [it EXCEPT !.state = "exhausted"]
               /\ last' = Last("next", 0, 0, Raise("StopIteration"), NoValue, NoDelay)
    /\ UNCHANGED <<pc, timeout, storage, tasks, now, hist>>

\* the cache under iteration: writes, deletes and timers between the next() calls
IterInitDelays == {Delay("num", 2), Delay("td", 0)}

NextIter ==
    \/ \E d \in IterInitDelays : Construct(d)
    \/ \E k \in Keys, v \in Values : SubscriptAssign(k, v)
    \/ \E k \in Keys : DelItem(k)
    \/ Tick
    \/ \E t \in TaskIds : Wake(t)
    \/ \E t \in TaskIds : TimedDel(t)
    \/ \E t \in TaskIds : TimedDelCancelled(t)
    \/ Iter
    \/ IterNext

SpecIter == Init /\ [][NextIter]_vars

(***************************************************************************)
(* The cache holding values of every truthiness, read by get.              *)
(***************************************************************************)
StoredValues == {PyInt(0), PyStr(<<>>), PyNone, PyBool(FALSE), PyInt(1)}

NextGet ==
    \/ \E d \in IterInitDelays : Construct(d)
    \/ \E k \in Keys, v \in StoredValues : SubscriptAssign(k, v)
    \/ \E k \in Keys : DelItem(k)
    \/ \E k \in Keys, d \in Defaults : Get(k, d)
    \/ Tick
    \/ \E t \in TaskIds : Wake(t)
    \/ \E t \in TaskIds : TimedDel(t)
    \/ \E t \in TaskIds : TimedDelCancelled(t)

SpecGet == Init /\ [][NextGet]_vars

(***************************************************************************)
(* Properties.                                                             *)
(***************************************************************************)
\* the task created by the latest set of key
LastSetTask(key) ==
    CHOOSE t \in TaskIds :
        /\ tasks[t].key = key
        /\ \A u \in TaskIds : tasks[u].key = key => u <= t

\* key was inserted by a set and has not been written or deleted since
SetAndLeft(key) == hist[key] # NoValue

\* C1 as claimed: a key set with effective timeout t and left alone is present
\* (get returns its value, contains is true) at every time before t has elapsed
\* since the set, and absent (get returns None, contains is false) at every time
\* at or after it.
C1_ExpiresExactlyAtTimeout ==
    \A k \in Keys : SetAndLeft(k) =>
        IF now < tasks[LastSetTask(k)].deadline
            THEN GetResult(k, PyNone) = Ok(hist[k]) /\ Contains(k)
            ELSE GetResult(k, PyNone) = Ok(PyNone) /\ ~Contains(k)

\* C1 amended: such a key is present, with its value, at every time before t has
\* elapsed and for as long as its timer task has not resumed; the task resumes no
\* earlier than t after the set, and from then on get returns None and contains
\* is false.
C1_ExpiresOnceTimerRuns ==
    \A k \in Keys : SetAndLeft(k) =>
        LET t == LastSetTask(k) IN
        /\ now < tasks[t].deadline => tasks[t].state = "sleeping"
        /\ tasks[t].state \in {"sleeping", "ready", "done"}
        /\ tasks[t].state \in {"sleeping", "ready"} =>
                GetResult(k, PyNone) = Ok(hist[k]) /\ Contains(k)
        /\ tasks[t].state = "done" =>
                /\ now >= tasks[t].deadline
                /\ GetResult(k, PyNone) = Ok(PyNone) /\ ~Contains(k)

\* C1 witness: a key set with timeout 2 at time 0 has expired and get returned None
C1_Witness ==
    \E k \in Keys :
        /\ SetAndLeft(k)
        /\ tasks[LastSetTask(k)].state = "done"
        /\ tasks[LastSetTask(k)].deadline = 2
        /\ timeout = 2
        /\ last.op = "get" /\ last.key = k /\ last.val = PyNone


\* the task of the entry that the latest set of key overwrote, 0 if there was none
Overwritten(key) ==
    LET t == LastSetTask(key)
        before == {u \in TaskIds : u < t /\ tasks[u].key = key}
    IN  IF before = {} THEN 0
        ELSE LET u == CHOOSE u \in before : \A w \in before : w <= u
             IN  IF tasks[u].cancelledBy = "set" THEN u ELSE 0

\* the timeout a set called with `delay` asks for: the per-call seconds when
\* given and not zero, the map's default otherwise
EffectiveTimeout(delay) ==
    IF delay.tag \in {"num", "td"} /\ delay.n # 0 THEN delay.n ELSE timeout

PendingTasks == {t \in TaskIds : Pending(t)}

\* C3: the pending timers and the keys of the map correspond one to one: every
\* present key has exactly one pending timer, which is the one in its entry, no
\* two entries share a timer, and every pending timer belongs to the entry
\* stored under its key.
C3_OnePendingTimerPerKey ==
    /\ \A k \in DOMAIN storage :
            /\ storage[k].task \in PendingTasks
            /\ tasks[storage[k].task].key = k
            /\ {t \in PendingTasks : tasks[t].key = k} = {storage[k].task}
    /\ \A j, k \in DOMAIN storage : storage[j].task = storage[k].task => j = k
    /\ \A t \in PendingTasks :
            tasks[t].key \in DOMAIN storage /\ storage[tasks[t].key].task = t
    /\ Cardinality(PendingTasks) = Cardinality(DOMAIN storage)

\* C3 witness: after an overwrite and a delete the map holds one key with its
\* one pending timer, next to a cancelled timer of each handler
C3_Witness ==
    /\ Cardinality(DOMAIN storage) = 1
    /\ Cardinality(PendingTasks) = 1
    /\ \E t \in TaskIds : tasks[t].cancelledBy \in {"set", "del"}
    /\ last.op = "set"

\* the step resumes task t, in whichever way
Resumes(t) ==
    /\ tasks[t].state \in {"ready", "cancelling"}
    /\ tasks'[t].state \in {"done", "failed", "cancelled"}

\* C4: a set that overwrites a key leaves the prior timer cancelled and a new,
\* later timer armed; the cancelled timer stays cancelled and its resumption
\* removes no entry from the map.
C4_OverwriteCancelsPriorTimer ==
    /\ [][\A k \in DOMAIN storage :
            (k \in DOMAIN storage' /\ storage'[k].task # storage[k].task) =>
                /\ last'.op \in {"set", "__setitem__"} /\ last'.key = k
                /\ tasks'[storage[k].task].state = "cancelling"
                /\ tasks'[storage[k].task].cancelledBy = "set"
                /\ storage'[k].task > storage[k].task
                /\ tasks'[storage'[k].task].state = "sleeping"]_vars
    /\ [][\A t \in TaskIds : tasks[t].cancelledBy = "set" =>
            /\ tasks'[t].state \in {"cancelling", "cancelled"}
            /\ Resumes(t) => storage' = storage]_vars

\* C4 witness: the timer of an overwritten entry was due, was resumed as
\* cancelled, and the newer entry is still in the map
C4_Witness ==
    \E t \in TaskIds :
        /\ tasks[t].cancelledBy = "set"
        /\ tasks[t].state = "cancelled"
        /\ now >= tasks[t].deadline
        /\ last.op = "cancelled" /\ last.task = t
        /\ tasks[t].key \in DOMAIN storage

\* C5: delete(k) on a present key cancels the entry's timer and removes the key
\* in one step, so k is never absent while that timer is pending; the timer stays
\* cancelled, and an entry is removed only by an explicit delete of its key or by
\* the resumption of its own timer.
C5_DeleteCancelsTimer ==
    /\ [](\A t \in TaskIds :
            /\ tasks[t].cancelledBy = "del" => tasks[t].state \in {"cancelling", "cancelled"}
            /\ Pending(t) => tasks[t].key \in DOMAIN storage)
    /\ [][(last'.op = "__delitem__" /\ last'.key \in DOMAIN storage) =>
            /\ last'.kind = "ok"
            /\ last'.task = storage[last'.key].task
            /\ last'.key \notin DOMAIN storage'
            /\ tasks'[last'.task].state = "cancelling"
            /\ tasks'[last'.task].cancelledBy = "del"]_vars
    /\ [][\A k \in DOMAIN storage : k \notin DOMAIN storage' =>
            \/ last'.op = "__delitem__" /\ last'.key = k
            \/ /\ tasks[storage[k].task].state = "ready"
               /\ tasks'[storage[k].task].state = "done"
               /\ last'.op = "_timed_del" /\ last'.task = storage[k].task]_vars

\* C5 witness: a key was deleted and inserted again; the deleted entry's timer
\* was due and resumed as cancelled while the new entry stayed in the map
C5_Witness ==
    \E t \in TaskIds :
        /\ tasks[t].cancelledBy = "del"
        /\ tasks[t].state = "cancelled"
        /\ now >= tasks[t].deadline
        /\ last.op = "cancelled" /\ last.task = t
        /\ tasks[t].key \in DOMAIN storage
        /\ storage[tasks[t].key].task > t

\* C6: when a timer's deferred action runs it removes its key exactly when the
\* entry stored under the key is the timer's own; a timer whose key was
\* overwritten while it was about to fire leaves the newer entry, value and
\* timer, in place.
C6_TimerRemovesOnlyOwnEntry ==
    [][\A t \in TaskIds : Resumes(t) =>
        LET k == tasks[t].key IN
        IF k \in DOMAIN storage /\ storage[k].task = t
            THEN storage' = Without(storage, k) /\ tasks'[t].state = "done"
            ELSE /\ storage' = storage
                 /\ tasks'[t].state = "cancelled"
                 /\ \A u \in TaskIds \ {t} : tasks'[u] = tasks[u]]_vars

\* C6 witness: a timer whose sleep had already finished when a set overwrote its
\* key has resumed, and the newer entry and its pending timer are still there
C6_Witness ==
    \E t \in TaskIds :
        /\ tasks[t].woken /\ tasks[t].cancelledBy = "set"
        /\ tasks[t].state = "cancelled"
        /\ last.op = "cancelled" /\ last.task = t
        /\ tasks[t].key \in DOMAIN storage
        /\ Pending(storage[tasks[t].key].task)


\* C7 as claimed: get(key, default) on an absent key returns exactly the default
\* it was given and never raises, whatever the default.
C7_GetAbsentReturnsDefault ==
    (last.op = "get" /\ last.key \notin DOMAIN storage) =>
        last.kind = "ok" /\ last.val = last.arg

\* C8: a get or a subscript get, on a present or an absent key, changes neither
\* the entries nor any timer nor the clock: no timer is reset or extended.
C8_ReadsChangeNothing ==
    [][last'.op \in {"get", "__getitem__"} =>
        UNCHANGED <<pc, timeout, storage, tasks, now, hist>>]_vars

\* C8 witness: get hit a key whose timer has run for a while and is not yet due
C8_Witness ==
    /\ last.op = "get" /\ last.kind = "ok"
    /\ last.key \in DOMAIN storage
    /\ last.val = storage[last.key].value
    /\ tasks[storage[last.key].task].state = "sleeping"
    /\ 0 < now /\ now < tasks[storage[last.key].task].deadline

\* C9: a subscript get or a delete of an absent key raises KeyError and leaves
\* the entries and every timer as they were.
C9_StrictAccessRaisesKeyError ==
    [][(last'.op \in {"__getitem__", "__delitem__"} /\ last'.key \notin DOMAIN storage) =>
        /\ last'.kind = "KeyError"
        /\ UNCHANGED <<pc, timeout, storage, tasks, now, hist>>]_vars

\* C9 witness: deleting a missing key raised KeyError next to a live entry
C9_Witness ==
    /\ last.op = "__delitem__" /\ last.kind = "KeyError"
    /\ last.key \notin DOMAIN storage
    /\ DOMAIN storage # {}
    /\ PendingTasks # {}

\* the timeouts of InitDelays that come out negative when the map is built
NegativeInitDelays == {Delay("num", -1), Delay("td", -1), Delay("aware", 1)}

\* C10 as claimed: building the map with a timeout that normalizes to a negative
\* number fails with ConfigurationError, and no map has a negative default
\* timeout.
C10_NegativeTimeoutRejected ==
    /\ (last.op = "__init__" /\ last.delay \in NegativeInitDelays) =>
            last.kind = "ConfigurationError" /\ pc = "failed"
    /\ pc = "live" => timeout >= 0

\* C10 amended: building the map with a timeout that normalizes to a negative
\* number succeeds, and the map keeps that negative number as its default
\* timeout; no ConfigurationError is raised.
C10_NegativeTimeoutAccepted ==
    (last.op = "__init__" /\ last.delay \in NegativeInitDelays) =>
        last.kind = "ok" /\ pc = "live" /\ timeout = -1

\* C10 witness: a map built from a timedelta of -1 second is live with default -1
C10_Witness ==
    /\ last.op = "__init__" /\ last.delay = Delay("td", -1)
    /\ pc = "live" /\ timeout < 0

\* the timeout __init__ takes when the caller passes none (line 53)
DEFAULT_TIMEOUT == 600

\* C11 as claimed: building the map with a timeout of zero or None succeeds, and
\* the map's default timeout is 600 seconds.
C11_ZeroOrNoneFallsBackTo600 ==
    (last.op = "__init__" /\ last.delay \in {Delay("num", 0), NoDelay}) =>
        last.kind = "ok" /\ pc = "live" /\ timeout = DEFAULT_TIMEOUT

\* C12: right after set(key, value, timeout) returned, the timer of the new entry
\* is asleep and due (per-call timeout) seconds after the call when a non-zero
\* per-call timeout was given, and (default timeout of the map) seconds after it
\* when the per-call timeout was missing or zero; right after map[key] = value it
\* is due (default timeout of the map) seconds after the assignment.
C12_PerCallTimeoutElseDefault ==
    /\ (last.op = "set" /\ last.kind = "ok") =>
            /\ tasks[last.task].key = last.key
            /\ tasks[last.task].state = "sleeping"
            /\ tasks[last.task].deadline - now =
                    IF last.delay.tag = "none" \/ last.delay.n = 0
                        THEN timeout
                        ELSE last.delay.n
    /\ (last.op = "__setitem__" /\ last.kind = "ok") =>
            /\ tasks[last.task].key = last.key
            /\ tasks[last.task].state = "sleeping"
            /\ tasks[last.task].deadline - now = timeout

\* C12 witness: on a map with default timeout 2, a set with per-call timeout 1
\* made at time 1 armed a timer due at 2, next to a timer armed with the default
C12_Witness ==
    /\ last.op = "set" /\ last.kind = "ok" /\ last.delay = Delay("num", 1)
    /\ timeout = 2 /\ now = 1
    /\ tasks[last.task].deadline = 2
    /\ \E t \in TaskIds : t # last.task /\ tasks[t].deadline = 2 /\ Pending(t)

\* the keys whose latest inserted entry has neither been removed by its timer nor
\* been deleted
LiveKeys == {k \in Keys : SetAndLeft(k) /\ tasks[LastSetTask(k)].state # "done"}

YieldedKeys == [i \in 1..Len(it.yielded) |-> it.yielded[i].key]

\* C14 as claimed: everything an iteration yields is the (key, value) pair of an
\* entry that was live when the iteration started, and an iteration run to its
\* end has yielded exactly one pair per such entry.
C14_YieldsKeyValuePairs ==
    /\ \A i \in 1..Len(it.yielded) :
            \E k \in DOMAIN it.present : it.yielded[i] = PairItem(k, it.present[k])
    /\ it.state = "exhausted" =>
            \A k \in DOMAIN it.present :
                Cardinality({i \in 1..Len(it.yielded) : YieldedKeys[i] = k}) = 1

\* C14 amended: everything an iteration yields is the bare key of an entry that
\* was live when the iteration started, with neither the value nor the timer
\* handle attached, and an iteration run to its end has yielded exactly one key
\* per such entry.
C14_YieldsKeysOnly ==
    /\ \A i \in 1..Len(it.yielded) :
            \E k \in DOMAIN it.present : it.yielded[i] = KeyItem(k)
    /\ it.state = "exhausted" =>
            \A k \in DOMAIN it.present :
                Cardinality({i \in 1..Len(it.yielded) : YieldedKeys[i] = k}) = 1

\* C14 witness: an iteration over a map of two entries has run to its end and
\* the two entries are still there
C14_Witness ==
    /\ it.state = "exhausted"
    /\ Len(it.yielded) = 2
    /\ DOMAIN storage = DOMAIN it.present
    /\ \A k \in DOMAIN storage : storage[k].value = it.present[k]
    /\ last.op = "next" /\ last.kind = "StopIteration"

\* C15: an iteration yields exactly the entries that were present when it was
\* started, each once and in their order, whatever is inserted, deleted or expires
\* between two next() calls: what has been yielded so far never repeats a key and
\* never holds a key that was absent at the start, next() raises nothing but the
\* StopIteration that ends the iteration, and that one only after every entry of
\* the start has been yielded.
C15_IterationIsSnapshot ==
    /\ \A i, j \in 1..Len(it.yielded) : YieldedKeys[i] = YieldedKeys[j] => i = j
    /\ \A i \in 1..Len(it.yielded) : YieldedKeys[i] \in DOMAIN it.present
    /\ Len(it.yielded) <= Cardinality(DOMAIN it.present)
    /\ last.op = "next" => last.kind \in {"ok", "StopIteration"}
    /\ (last.op = "next" /\ last.kind = "ok") =>
            Len(it.yielded) > 0 /\ YieldedKeys[Len(it.yielded)] = last.key
    /\ (it.state = "exhausted" \/ (last.op = "next" /\ last.kind = "StopIteration")) =>
            {YieldedKeys[i] : i \in 1..Len(it.yielded)} = DOMAIN it.present

\* C15 witness: of two entries present at the start, one was removed from the
\* map by its timer before next() came to it, and next() yielded it all the same
C15_Witness ==
    /\ it.state = "open"
    /\ Len(it.yielded) = 2
    /\ last.op = "next" /\ last.kind = "ok"
    /\ last.key \notin DOMAIN storage
    /\ \E t \in TaskIds : tasks[t].key = last.key /\ tasks[t].state = "done"

\* C16: get(k, default) on a key that is in the map returns the value stored
\* under k and raises nothing, whatever the default and whether the stored value
\* is truthy or falsy (0, "", None, False).
C16_GetReturnsFalsyValues ==
    /\ \A k \in DOMAIN storage : \A d \in Defaults :
            GetResult(k, d) = Ok(storage[k].value) /\ storage[k].value = hist[k]
    /\ (last.op = "get" /\ last.key \in DOMAIN storage) =>
            last.kind = "ok" /\ last.val = hist[last.key]

\* C16 witness: the map holds a None and a False, and get with default 5 returned
\* the None
C16_Witness ==
    /\ last.op = "get" /\ last.arg = PyInt(5)
    /\ last.key \in DOMAIN storage
    /\ last.val = PyNone /\ hist[last.key] = PyNone
    /\ \E k \in DOMAIN storage : storage[k].value = PyBool(FALSE)

\* C17: a timer whose key was deleted before it fired ends silently: when it is
\* resumed, no pop runs for the absent key, so nothing raises KeyError, no entry
\* is removed and the size still counts every live key; and a cancel of a timer
\* that has already fired or has already been cancelled leaves every timer as it
\* was.
C17_StaleTimerIsSilentNoOp ==
    /\ \A t \in TaskIds : tasks[t].state # "failed"
    /\ last.op = "_timed_del" => last.kind = "ok"
    /\ (last.op = "cancelled" /\ tasks[last.task].cancelledBy = "del") =>
            /\ tasks[last.task].state = "cancelled"
            /\ \A k \in LiveKeys : k \in DOMAIN storage /\ storage[k].value = hist[k]
            /\ LenResult = Ok(PyInt(Cardinality(LiveKeys)))
    /\ \A t \in TaskIds : ~Pending(t) =>
            Cancel(tasks, t, "set") = tasks /\ Cancel(tasks, t, "del") = tasks

\* C17 witness: a timer whose sleep had finished when its key was deleted has
\* been resumed; its key is gone and the other entry is still in the map
C17_Witness ==
    /\ last.op = "cancelled"
    /\ tasks[last.task].cancelledBy = "del" /\ tasks[last.task].woken
    /\ tasks[last.task].state = "cancelled"
    /\ last.key \notin DOMAIN storage
    /\ Cardinality(DOMAIN storage) = 1

\* C18: an overwriting set removes the old entry and installs the new one in one
\* step of the loop, with nothing in between: whenever a timer has been cancelled
\* by an overwrite, the timer that replaces it exists already, and right after
\* any set the key is in the map with the value and the timer of that set.  No
\* state in which the key is absent lies between the two, so neither a reader nor
\* a timer can observe one.
C18_OverwriteIsOneStep ==
    /\ \A t \in TaskIds : tasks[t].cancelledBy = "set" =>
            \E u \in TaskIds : u > t /\ tasks[u].key = tasks[t].key
    /\ (last.op \in {"set", "__setitem__"} /\ last.kind = "ok") =>
            /\ last.key \in DOMAIN storage
            /\ storage[last.key] = [value |-> last.arg, task |-> last.task]
            /\ Contains(last.key)
            /\ GetResult(last.key, PyNone) = Ok(last.arg)

\* C18 witness: a key was overwritten while its timer was queued to remove it;
\* the old timer awaits its cancellation and the key is in the map with the
\* new value
C18_Witness ==
    /\ last.op \in {"set", "__setitem__"} /\ last.kind = "ok"
    /\ Overwritten(last.key) # 0
    /\ tasks[Overwritten(last.key)].woken
    /\ tasks[Overwritten(last.key)].state = "cancelling"
    /\ storage[last.key].value = last.arg
    /\ storage[last.key].value # PyInt(0)

\* C19: entries are independent: a step made for key k (a set, a subscript
\* assignment, a delete, the end of a timer's sleep, a timer's pop or a cancelled
\* timer's resumption) leaves every other key j as it was: present or absent as
\* before, with the same value, the same timer in the same state and the same
\* expiry time.
C19_EntriesAreIndependent ==
    [][\A j \in Keys :
        (/\ last'.op \in {"set", "__setitem__", "__delitem__", "wake", "_timed_del",
                          "cancelled"}
         /\ last'.key # j) =>
            /\ (j \in DOMAIN storage) = (j \in DOMAIN storage')
            /\ j \in DOMAIN storage => storage'[j] = storage[j]
            /\ \A t \in TaskIds : tasks[t].key = j => tasks'[t] = tasks[t]
            /\ hist'[j] = hist[j]]_vars

\* C19 witness: the timer of one key has removed it while the other key is in
\* the map with its value and a timer that is not yet due
C19_Witness ==
    /\ last.op = "_timed_del" /\ last.kind = "ok"
    /\ last.key \notin DOMAIN storage
    /\ \E j \in DOMAIN storage :
            /\ j # last.key
            /\ storage[j].value = hist[j]
            /\ tasks[storage[j].task].state = "sleeping"
            /\ now < tasks[storage[j].task].deadline

====
